---------------------------- MODULE Spec2Model ----------------------------
(***************************************************************************)
(* micro-conf.h: a line-oriented "key = value" configuration parser.       *)
(*                                                                         *)
(* A C string is modelled as the sequence of its characters (each a        *)
(* one-character string) without the terminating NUL: reading the position *)
(* just past the end of the sequence is reading the NUL.  A file is the    *)
(* sequence of the lines getline() returns, each with its newline.         *)
(* A destination is identified with the index of its binding in the        *)
(* caller's table.                                                         *)
(***************************************************************************)
EXTENDS Integers, Sequences, FiniteSets, TLC

VARIABLES
    file,     \* the lines still on disk, as getline() will return them
    ref,      \* a second file, the reference input of the relational properties
    env,      \* the environment: is conf NULL, does fopen fail, does fclose fail
    dest0,    \* the destinations' values before the call
    dest,     \* the destinations' values now
    pc,       \* "call", "open", "loop", "returned"
    pos,      \* number of lines getline() has returned so far
    handle,   \* "none", "open", "closed": the FILE* of the call
    nclose,   \* number of fclose() calls made on the handle
    ret       \* the return value, once pc = "returned"

vars == <<file, ref, env, dest0, dest, pc, pos, handle, nclose, ret>>

---------------------------------------------------------------------------
\* Result codes and binding types of the header.

MICRO_CONF_OK == 0
MICRO_CONF_ERROR_CONF_NULL == -1
MICRO_CONF_ERROR_OPENING_FILE == -2
MICRO_CONF_ERROR_CLOSING_FILE == -3
MICRO_CONF_ERROR_UNKNOWN_TYPE == -4
MICRO_CONF_ERROR_INVALID_BOOL == -5
MICRO_CONF_ERROR_INVALID_INT == -6
MICRO_CONF_ERROR_INVALID_DOUBLE == -7
MICRO_CONF_ERROR_INVALID_FLOAT == -8
MICRO_CONF_ERROR_INVALID_CHAR == -9

MICRO_CONF_BOOL == 0
MICRO_CONF_INT == 1
MICRO_CONF_FLOAT == 2
MICRO_CONF_DOUBLE == 3
MICRO_CONF_CHAR == 4
MICRO_CONF_STR == 5
\* A type value outside the enumeration, reaching the switch's default.
BAD_TYPE == 6

---------------------------------------------------------------------------
\* C library helpers.

Drop(s, n) == SubSeq(s, n + 1, Len(s))

\* isspace() in the C locale (the vertical tab has no TLA+ escape).
IsSpace(c) == c \in {" ", "\t", "\n", "\r", "\f"}

IsDigit(c) == c \in {"0", "1", "2", "3", "4", "5", "6", "7", "8", "9"}

DigitVal(c) ==
    CASE c = "0" -> 0 [] c = "1" -> 1 [] c = "2" -> 2 [] c = "3" -> 3
      [] c = "4" -> 4 [] c = "5" -> 5 [] c = "6" -> 6 [] c = "7" -> 7
      [] c = "8" -> 8 [] c = "9" -> 9

\* Index of the first character of s at or after i that is not isspace().
RECURSIVE SkipSpace(_, _)
SkipSpace(s, i) ==
    IF i <= Len(s) /\ IsSpace(s[i]) THEN SkipSpace(s, i + 1) ELSE i

\* Reads decimal digits of s from index i on, accumulating into acc.
RECURSIVE ScanDigits(_, _, _)
ScanDigits(s, i, acc) ==
    IF i <= Len(s) /\ IsDigit(s[i])
    THEN ScanDigits(s, i + 1, acc * 10 + DigitVal(s[i]))
    ELSE [val |-> acc, end |-> i]

\* An optional sign at index i of s: its length, and whether it is a minus.
SignLen(s, i) == IF i <= Len(s) /\ s[i] \in {"+", "-"} THEN 1 ELSE 0

IsMinus(s, i) == i <= Len(s) /\ s[i] = "-"

\* strtol past the leading white space, which ends before index i.
strtol_at(s, i) ==
    LET r == ScanDigits(s, i + SignLen(s, i), 0)
    IN  IF r.end = i + SignLen(s, i) THEN [val |-> 0, endpos |-> 0]
        ELSE [val |-> IF IsMinus(s, i) THEN 0 - r.val ELSE r.val,
              endpos |-> r.end - 1]

\* strtol(s, &endptr, 10): val, and endpos = endptr - s.  No digits: val 0 and
\* endptr = s.  The inputs below have few digits, so the value is far from the
\* range of long where strtol saturates.
strtol(s) == strtol_at(s, SkipSpace(s, 1))

\* A decimal number mant * 10^exp in lowest terms; 0 is <<0, 0>>.
RECURSIVE Norm(_, _)
Norm(mant, exp) ==
    IF mant = 0 THEN <<0, 0>>
    ELSE IF mant % 10 = 0 THEN Norm(mant \div 10, exp + 1)
    ELSE <<mant, exp>>

\* The mantissa digits [. digits] of s from index j on: the digits read as
\* one integer, the index after them, and how many follow the point.
ScanFraction(s, j, ip) ==
    LET fp == ScanDigits(s, ip.end + 1, ip.val)
    IN  [val |-> fp.val, end |-> fp.end, nfrac |-> fp.end - ip.end - 1,
         ndig |-> fp.end - j - 1]

ScanMantissa(s, j) ==
    LET ip == ScanDigits(s, j, 0)
    IN  IF ip.end <= Len(s) /\ s[ip.end] = "."
        THEN ScanFraction(s, j, ip)
        ELSE [val |-> ip.val, end |-> ip.end, nfrac |-> 0, ndig |-> ip.end - j]

\* The exponent e [sign] digits at index m of s, read only when a digit
\* follows: its value and the index after it (m when there is none).
ScanExponent(s, m) ==
    IF m <= Len(s) /\ s[m] \in {"e", "E"}
    THEN LET ep == ScanDigits(s, m + 1 + SignLen(s, m + 1), 0)
         IN  IF ep.end > m + 1 + SignLen(s, m + 1)
             THEN [val |-> IF IsMinus(s, m + 1) THEN 0 - ep.val ELSE ep.val,
                   end |-> ep.end]
             ELSE [val |-> 0, end |-> m]
    ELSE [val |-> 0, end |-> m]

\* strtod past the leading white space, which ends before index i.
strtod_at(s, i) ==
    LET m == ScanMantissa(s, i + SignLen(s, i))
    IN  IF m.ndig = 0 THEN [val |-> <<0, 0>>, endpos |-> 0]
        ELSE LET e == ScanExponent(s, m.end)
             IN  [val |-> Norm(IF IsMinus(s, i) THEN 0 - m.val ELSE m.val,
                               e.val - m.nfrac),
                  endpos |-> e.end - 1]

\* strtod(s, &endptr) on decimal input: [sign] digits [. digits] [e [sign]
\* digits], at least one mantissa digit.  The value is the decimal number read
\* (the nearest double is a function of it).  Hexadecimal, "inf" and "nan"
\* forms need characters the inputs below never combine.
strtod(s) == strtod_at(s, SkipSpace(s, 1))

\* strtof(s, &endptr): the same syntax; the value is kept as the decimal read.
strtof(s) == strtod(s)

---------------------------------------------------------------------------
\* The scanner.

\* left_space(input, input_size, NULL, NULL): the number of leading spaces,
\* newlines and tabs of input, at most input_size.  The NUL that ends the
\* string is none of them, so the count never passes the end.
RECURSIVE left_space_loop(_, _, _)
left_space_loop(input, input_size, p) ==
    IF p < input_size /\ p < Len(input) /\ input[p + 1] \in {" ", "\n", "\t"}
    THEN left_space_loop(input, input_size, p + 1)
    ELSE p

left_space(input, input_size) ==
    IF input_size = 0 THEN 0 ELSE left_space_loop(input, input_size, 0)

\* A variant that leaves the comment in the line.
StripComment_Keep(line) == line

\* comment = strchr(line, '#'); if (comment) *comment = '\0'.
RECURSIVE StripComment(_)
StripComment(line) ==
    IF line = <<>> \/ Head(line) = "#" THEN <<>>
    ELSE <<Head(line)>> \o StripComment(Tail(line))

\* strncmp(trimmed, name, strlen(name)) == 0.
NameMatches(trimmed, name) ==
    Len(trimmed) >= Len(name) /\ SubSeq(trimmed, 1, Len(name)) = name

\* A variant without the name comparison: the first binding is taken.
FindBinding_NoCompare(cf, trimmed, i) == IF i > Len(cf) THEN 0 ELSE i

\* A variant without the break: the last matching binding is taken.
RECURSIVE FindBinding_Last(_, _, _)
FindBinding_Last(cf, trimmed, i) ==
    IF i > Len(cf) THEN 0
    ELSE LET later == FindBinding_Last(cf, trimmed, i + 1)
         IN  IF later # 0 THEN later
             ELSE IF NameMatches(trimmed, cf[i].name) THEN i ELSE 0

\* The for loop over the bindings from index i on: the first whose name is a
\* prefix of trimmed (the loop breaks after it), 0 when there is none.
RECURSIVE FindBinding(_, _, _)
FindBinding(cf, trimmed, i) ==
    IF i > Len(cf) THEN 0
    ELSE IF NameMatches(trimmed, cf[i].name) THEN i
    ELSE FindBinding(cf, trimmed, i + 1)

\* while (vlen > 0 && (value_str[vlen-1] == '\n' || value_str[vlen-1] == ' '))
\*   value_str[--vlen] = '\0'.
RECURSIVE TrimRight(_)
TrimRight(s) ==
    IF Len(s) > 0 /\ s[Len(s)] \in {"\n", " "}
    THEN TrimRight(SubSeq(s, 1, Len(s) - 1))
    ELSE s

\* if (*after_name == '=' || *after_name == ':') after_name++;
SkipSeparator(after_name) ==
    IF after_name # <<>> /\ Head(after_name) \in {"=", ":"}
    THEN Tail(after_name) ELSE after_name

\* after_name += left_space(after_name, input_size, NULL, NULL)
SkipBlank(after_name, input_size) ==
    Drop(after_name, left_space(after_name, input_size))

\* The raw value string of a line that matched a binding named name: buf is
\* the line cut at its comment, read the length getline() returned, space the
\* leading whitespace already counted.  Each input_size is what is left of
\* the read bytes from after_name on.
ValueAfterName(after_name, left) ==
    LET a2 == SkipSeparator(SkipBlank(after_name, left))
    IN  TrimRight(SkipBlank(a2, left - (Len(after_name) - Len(a2))))

ValueStr(buf, read, space, name) ==
    ValueAfterName(Drop(buf, space + Len(name)), read - space - Len(name))

---------------------------------------------------------------------------
\* The converters: code is MICRO_CONF_OK and val the value to store, or code is
\* the error and nothing is stored.

Stored(v) == [code |-> MICRO_CONF_OK, val |-> v]
Failed(c) == [code |-> c, val |-> 0]

\* A variant that compares without regard to case.
ConvBool_AnyCase(value_str) ==
    IF value_str \in {<<"t", "r", "u", "e">>, <<"T", "r", "u", "e">>, <<"1">>}
    THEN Stored(TRUE)
    ELSE IF value_str \in {<<"f", "a", "l", "s", "e">>,
                           <<"F", "a", "l", "s", "e">>, <<"0">>}
    THEN Stored(FALSE)
    ELSE Failed(MICRO_CONF_ERROR_INVALID_BOOL)

ConvBool(value_str) ==
    IF value_str = <<"t", "r", "u", "e">> \/ value_str = <<"1">>
    THEN Stored(TRUE)
    ELSE IF value_str = <<"f", "a", "l", "s", "e">> \/ value_str = <<"0">>
    THEN Stored(FALSE)
    ELSE Failed(MICRO_CONF_ERROR_INVALID_BOOL)

ConvChar(value_str) ==
    IF Len(value_str) = 1 THEN Stored(value_str[1])
    ELSE Failed(MICRO_CONF_ERROR_INVALID_CHAR)

\* strdup(value_str): a copy of the characters.
ConvStr(value_str) == Stored(value_str)

\* A variant without the check of endptr.
ConvInt_NoEndCheck(value_str) == Stored(strtol(value_str).val)

\* A variant that also rejects a string strtol read no digit of.
ConvInt_NeedsDigit(value_str) ==
    LET r == strtol(value_str)
    IN  IF r.endpos # Len(value_str) \/ r.endpos = 0
        THEN Failed(MICRO_CONF_ERROR_INVALID_INT)
        ELSE Stored(r.val)

ConvInt(value_str) ==
    LET r == strtol(value_str)
    IN  IF r.endpos # Len(value_str) THEN Failed(MICRO_CONF_ERROR_INVALID_INT)
        ELSE Stored(r.val)

ConvDouble(value_str) ==
    LET r == strtod(value_str)
    IN  IF r.endpos # Len(value_str) THEN Failed(MICRO_CONF_ERROR_INVALID_DOUBLE)
        ELSE Stored(r.val)

ConvFloat(value_str) ==
    LET r == strtof(value_str)
    IN  IF r.endpos # Len(value_str) THEN Failed(MICRO_CONF_ERROR_INVALID_FLOAT)
        ELSE Stored(r.val)

\* switch (conf[i].type)
Convert(type, value_str) ==
    CASE type = MICRO_CONF_BOOL -> ConvBool(value_str)
      [] type = MICRO_CONF_CHAR -> ConvChar(value_str)
      [] type = MICRO_CONF_STR -> ConvStr(value_str)
      [] type = MICRO_CONF_INT -> ConvInt(value_str)
      [] type = MICRO_CONF_DOUBLE -> ConvDouble(value_str)
      [] type = MICRO_CONF_FLOAT -> ConvFloat(value_str)
      [] OTHER -> Failed(MICRO_CONF_ERROR_UNKNOWN_TYPE)

\* *((T*)conf[i].value) = v
Store(d, i, v) == [d EXCEPT ![i] = v]

\* A variant without the break that ends the for loop: every binding whose
\* name matches is converted and stored, in order.
RECURSIVE ApplyAll(_, _, _, _, _, _)
ApplyAll(cf, buf, read, space, i, d) ==
    IF i > Len(cf) THEN [code |-> MICRO_CONF_OK, dest |-> d, hit |-> 0]
    ELSE IF ~NameMatches(Drop(buf, space), cf[i].name)
    THEN ApplyAll(cf, buf, read, space, i + 1, d)
    ELSE LET c == Convert(cf[i].type, ValueStr(buf, read, space, cf[i].name))
         IN  IF c.code # MICRO_CONF_OK
             THEN [code |-> c.code, dest |-> d, hit |-> i]
             ELSE ApplyAll(cf, buf, read, space, i + 1, Store(d, i, c.val))

ProcessLine_NoBreak(cf, line, d) ==
    LET buf == StripComment(line)
        space == left_space(buf, Len(line))
    IN  IF Drop(buf, space) = <<>>
        THEN [code |-> MICRO_CONF_OK, dest |-> d, hit |-> 0]
        ELSE ApplyAll(cf, buf, Len(line), space, 1, d)

\* The body of the while loop for one line: code is MICRO_CONF_OK when the
\* loop goes on to the next line, the error otherwise; dest the destinations
\* after the line; hit the binding the line resolved to, or 0.
ProcessLine(cf, line, d) ==
    LET read == Len(line)
        buf == StripComment(line)
        space == left_space(buf, read)
        trimmed == Drop(buf, space)
        i == FindBinding(cf, trimmed, 1)
    IN  IF trimmed = <<>> \/ Head(trimmed) = "\n" \/ i = 0
        THEN [code |-> MICRO_CONF_OK, dest |-> d, hit |-> 0]
        ELSE LET c == Convert(cf[i].type, ValueStr(buf, read, space, cf[i].name))
             IN  IF c.code = MICRO_CONF_OK
                 THEN [code |-> MICRO_CONF_OK, dest |-> Store(d, i, c.val), hit |-> i]
                 ELSE [code |-> c.code, dest |-> d, hit |-> i]

---------------------------------------------------------------------------
\* The caller: the binding table and the destinations' defaults of example.c's
\* main, with short keys.  Binding i writes destination i.  "x1" and "sx"
\* come after a binding whose key is a prefix of theirs; "u" has a type
\* outside the enumeration.

config ==
    << [type |-> MICRO_CONF_INT,    name |-> <<"x">>],
       [type |-> MICRO_CONF_INT,    name |-> <<"x", "1">>],
       [type |-> MICRO_CONF_BOOL,   name |-> <<"b">>],
       [type |-> MICRO_CONF_CHAR,   name |-> <<"c">>],
       [type |-> MICRO_CONF_STR,    name |-> <<"s">>],
       [type |-> MICRO_CONF_STR,    name |-> <<"s", "x">>],
       [type |-> MICRO_CONF_DOUBLE, name |-> <<"d">>],
       [type |-> MICRO_CONF_FLOAT,  name |-> <<"f">>],
       [type |-> BAD_TYPE,          name |-> <<"u">>] >>

\* 10, (a second int) 11, true, 'F', "test", (a second string) "t2", 123.123,
\* 11.0f, and the slot of the ill-typed binding.
Defaults ==
    << 10, 11, TRUE, "F", <<"t", "e", "s", "t">>, <<"t", "2">>,
       <<123123, -3>>, <<11, 0>>, 7 >>

\* Other values a caller may start from.
AltDefaults ==
    << 3, 4, FALSE, "Q", <<>>, <<"o">>, <<25, -1>>, <<4, 0>>, 8 >>

---------------------------------------------------------------------------
\* micro_conf_parse(conf, num_conf, pathname)

\* if (!conf) return MICRO_CONF_ERROR_CONF_NULL;
CheckConf ==
    /\ pc = "call"
    /\ IF env.confNull
       THEN pc' = "returned" /\ ret' = MICRO_CONF_ERROR_CONF_NULL
       ELSE pc' = "open" /\ ret' = ret
    /\ UNCHANGED <<file, ref, env, dest0, dest, pos, handle, nclose>>

\* file = fopen(pathname, "r"); if (!file) return MICRO_CONF_ERROR_OPENING_FILE;
OpenFile ==
    /\ pc = "open"
    /\ IF env.openFails
       THEN pc' = "returned" /\ ret' = MICRO_CONF_ERROR_OPENING_FILE
            /\ handle' = handle
       ELSE pc' = "loop" /\ ret' = ret /\ handle' = "open"
    /\ UNCHANGED <<file, ref, env, dest0, dest, pos, nclose>>

\* A variant that puts the destinations back on an error.
GetLine_Rollback ==
    /\ pc = "loop"
    /\ pos < Len(file)
    /\ LET r == ProcessLine(config, file[pos + 1], dest)
       IN  /\ pos' = pos + 1
           /\ IF r.code # MICRO_CONF_OK
              THEN /\ dest' = dest0
                   /\ handle' = "closed"
                   /\ nclose' = nclose + 1
                   /\ ret' = r.code
                   /\ pc' = "returned"
              ELSE dest' = r.dest /\ UNCHANGED <<handle, nclose, ret, pc>>
    /\ UNCHANGED <<file, ref, env, dest0>>

\* A variant that returns the error without closing the file.
GetLine_Leak ==
    /\ pc = "loop"
    /\ pos < Len(file)
    /\ LET r == ProcessLine(config, file[pos + 1], dest)
       IN  /\ pos' = pos + 1
           /\ dest' = r.dest
           /\ IF r.code # MICRO_CONF_OK
              THEN ret' = r.code /\ pc' = "returned"
                   /\ UNCHANGED <<handle, nclose>>
              ELSE UNCHANGED <<handle, nclose, ret, pc>>
    /\ UNCHANGED <<file, ref, env, dest0>>

\* One iteration of the while loop: getline() returns the next line, the line
\* is processed, and on an error the line is freed, the file closed and the
\* error returned.
GetLine ==
    /\ pc = "loop"
    /\ pos < Len(file)
    /\ LET r == ProcessLine(config, file[pos + 1], dest)
       IN  /\ pos' = pos + 1
           /\ dest' = r.dest
           /\ IF r.code # MICRO_CONF_OK
              THEN /\ handle' = "closed"
                   /\ nclose' = nclose + 1
                   /\ ret' = r.code
                   /\ pc' = "returned"
              ELSE UNCHANGED <<handle, nclose, ret, pc>>
    /\ UNCHANGED <<file, ref, env, dest0>>

\* getline() returns -1: free(line); if (fclose(file) != 0) return
\* MICRO_CONF_ERROR_CLOSING_FILE; return MICRO_CONF_OK.  fclose() ends the
\* stream whether or not it reports a failure.
EndOfFile ==
    /\ pc = "loop"
    /\ pos = Len(file)
    /\ handle' = "closed"
    /\ nclose' = nclose + 1
    /\ ret' = IF env.closeFails THEN MICRO_CONF_ERROR_CLOSING_FILE
              ELSE MICRO_CONF_OK
    /\ pc' = "returned"
    /\ UNCHANGED <<file, ref, env, dest0, dest, pos>>

Next == CheckConf \/ OpenFile \/ GetLine \/ EndOfFile

\* The call as a function of its inputs: the return value and the
\* destinations on return.
RECURSIVE RunLines(_, _, _, _)
RunLines(f, e, k, d) ==
    IF k > Len(f)
    THEN [ret |-> IF e.closeFails THEN MICRO_CONF_ERROR_CLOSING_FILE
                  ELSE MICRO_CONF_OK,
          dest |-> d]
    ELSE LET r == ProcessLine(config, f[k], d)
         IN  IF r.code # MICRO_CONF_OK THEN [ret |-> r.code, dest |-> r.dest]
             ELSE RunLines(f, e, k + 1, r.dest)

Outcome(f, e, d0) ==
    IF e.confNull THEN [ret |-> MICRO_CONF_ERROR_CONF_NULL, dest |-> d0]
    ELSE IF e.openFails THEN [ret |-> MICRO_CONF_ERROR_OPENING_FILE, dest |-> d0]
    ELSE RunLines(f, e, 1, d0)

---------------------------------------------------------------------------
\* Inputs.

MaxLines == 2
MaxPad == 1

NL == <<"\n">>

\* The lines the files of Spec are made of.
LinePool ==
    { <<"x", "=", "5">> \o NL,
      <<"x", " ", "=", " ", "7", " ", "#", " ", "c">> \o NL,
      <<"x", "=", "1", "a">> \o NL,
      <<"x">> \o NL,
      <<"x", "1">> \o NL,
      <<"x", "1", "=", "2">> \o NL,
      <<"b", ":", " ", "t", "r", "u", "e">> \o NL,
      <<"b", "=", "0">> \o NL,
      <<"b", "=", "n", "o">> \o NL,
      <<"c", "=", "G">> \o NL,
      <<"c", "=", "a", "b">> \o NL,
      <<"s", "=", "h", "i">> \o NL,
      <<"s", "x", "=", "1">> \o NL,
      <<"d", "=", "1", ".", "5">> \o NL,
      <<"f", " ", "2", "x">> \o NL,
      <<"u", "=", "1">> \o NL,
      <<"z", "=", "1">> \o NL,
      <<"#", " ", "x", "=", "1">> \o NL,
      NL }

Files == UNION { [1..k -> LinePool] : k \in 0..MaxLines }

NoFault == [confNull |-> FALSE, openFails |-> FALSE, closeFails |-> FALSE]

Envs ==
    { NoFault,
      [NoFault EXCEPT !.confNull = TRUE],
      [NoFault EXCEPT !.openFails = TRUE],
      [NoFault EXCEPT !.closeFails = TRUE] }

Start ==
    /\ dest = dest0
    /\ pc = "call"
    /\ pos = 0
    /\ handle = "none"
    /\ nclose = 0
    /\ ret = 0

Init ==
    /\ file \in Files
    /\ ref = file
    /\ env \in Envs
    /\ dest0 = Defaults
    /\ Start

Spec == Init /\ [][Next]_vars

\* One line put together from its parts, alone in the file with or without
\* its newline, or followed by a second line; ref is the same file with the
\* first line's comment left out.
Keys ==
    { <<>>, <<"x">>, <<"b">>, <<"c">>, <<"s">>, <<"d">>, <<"z">> }

Values ==
    { <<>>, <<"1">>, <<"0">>, <<"-", "5">>, <<"1", "2", "a">>,
      <<"1", ".", "5">>, <<"t", "r", "u", "e">>, <<"f", "a", "l", "s", "e">>,
      <<"T", "r", "u", "e">>, <<"h", "i">>, <<"a", " ", "b">> }

Blanks == { <<>>, <<" ">>, <<"\t">> }

Comments == { <<>>, <<"#", " ", "c">> }

NextLine == <<"x", " ", "=", " ", "9">> \o NL

Endings == { <<"eof">>, <<"newline">>, <<"newline", "line">> }

Ended(line, ending) ==
    IF ending = <<"eof">> THEN << line >>
    ELSE IF ending = <<"newline">> THEN << line \o NL >>
    ELSE << line \o NL, NextLine >>

InitLine ==
    /\ \E lead \in {<<>>, <<"\t">>}, key \in Keys, mid \in {<<>>, <<" ">>},
          sep \in {<<>>, <<"=">>, <<":">>}, gap \in Blanks, value \in Values,
          trail \in Blanks, comment \in Comments, ending \in Endings :
          LET L == lead \o key \o mid \o sep \o gap \o value \o trail
          IN  /\ file = Ended(L \o comment, ending)
              /\ ref = Ended(L, ending)
    /\ env = NoFault
    /\ dest0 \in {Defaults, AltDefaults}
    /\ Start

SpecLine == InitLine /\ [][Next]_vars

\* The keys of the bindings of each type.
TypedKeys == { <<"x">>, <<"b">>, <<"c">>, <<"s">>, <<"d">>, <<"f">> }

\* One line "key<sep>value" with blanks put before the key, around the
\* separator and after the value; ref is the line without them.
Pads == UNION { [1..k -> {" ", "\t"}] : k \in 0..MaxPad }

InitWs ==
    /\ \E key \in TypedKeys, sep \in {<<"=">>, <<":">>},
          value \in Values, lead \in Pads, mid \in Pads, gap \in Pads,
          trail \in Pads, ending \in Endings :
          /\ file = Ended(lead \o key \o mid \o sep \o gap \o value \o trail,
                          ending)
          /\ ref = Ended(key \o sep \o value, ending)
    /\ env = NoFault
    /\ dest0 = Defaults
    /\ Start

SpecWs == InitWs /\ [][Next]_vars

---------------------------------------------------------------------------
\* Properties.  The notions the properties are stated in are defined here from
\* the file format, not from the parser's operators.

Least(S) == CHOOSE n \in S : \A m \in S : n <= m
Greatest(S) == CHOOSE n \in S : \A m \in S : m <= n

\* The text of a line before its first '#'.
BeforeHash(line) ==
    LET H == { j \in 1..Len(line) : line[j] = "#" }
    IN  IF H = {} THEN line ELSE SubSeq(line, 1, Least(H) - 1)

\* A text without its leading spaces, tabs and newlines.
LeftTrimmed(t) ==
    LET N == { j \in 1..Len(t) : t[j] \notin {" ", "\t", "\n"} }
    IN  IF N = {} THEN <<>> ELSE SubSeq(t, Least(N), Len(t))

\* The comment-stripped, left-trimmed text of a line.
Candidate(line) == LeftTrimmed(BeforeHash(line))

IsPrefix(k, t) == Len(k) <= Len(t) /\ \A j \in 1..Len(k) : t[j] = k[j]

Matching(line) ==
    { i \in 1..Len(config) : IsPrefix(config[i].name, Candidate(line)) }

\* The binding a line resolves to: the first, in the table's order, whose key
\* is a prefix of the candidate text; 0 for a blank line and for an unknown key.
Resolves(line) ==
    IF Candidate(line) = <<>> \/ Matching(line) = {} THEN 0
    ELSE Least(Matching(line))

\* The raw value string of a line that resolves to a binding.
RawValue(line) ==
    ValueStr(StripComment(line), Len(line),
             left_space(StripComment(line), Len(line)),
             config[Resolves(line)].name)

\* The conversion of a line that resolves to a binding.
Converted(line) == Convert(config[Resolves(line)].type, RawValue(line))

\* The result code of one line taken alone.
LineCode(line) ==
    IF Resolves(line) = 0 THEN MICRO_CONF_OK ELSE Converted(line).code

\* The first line of the file that produces an error, 0 when there is none.
FirstErr ==
    LET E == { k \in 1..Len(file) : LineCode(file[k]) # MICRO_CONF_OK }
    IN  IF E = {} THEN 0 ELSE Least(E)

\* The destinations after lines 1..n, none of which produces an error, were
\* applied in order to the values held before the call.
RECURSIVE Applied(_)
Applied(n) ==
    IF n = 0 THEN dest0
    ELSE IF Resolves(file[n]) = 0 THEN Applied(n - 1)
    ELSE [Applied(n - 1) EXCEPT ![Resolves(file[n])] = Converted(file[n]).val]

\* The last line of the file that resolves to binding i, 0 when there is none.
LastResolving(i) ==
    LET S == { k \in 1..Len(file) : Resolves(file[k]) = i }
    IN  IF S = {} THEN 0 ELSE Greatest(S)

IntLine(line) ==
    Resolves(line) # 0 /\ config[Resolves(line)].type = MICRO_CONF_INT

BoolLine(line) ==
    Resolves(line) # 0 /\ config[Resolves(line)].type = MICRO_CONF_BOOL

\* C1: a line "key<sep>value" that parses successfully gives the same result
\* code and the same destination values when spaces or tabs are put before the
\* key, between key and separator, between separator and value and after the
\* value.  (file is the line with the blanks, ref the line without.)
C1_WhitespaceInsensitive ==
    (pc = "returned" /\ Outcome(ref, env, dest0).ret = MICRO_CONF_OK)
        => /\ ret = MICRO_CONF_OK
           /\ dest = Outcome(ref, env, dest0).dest

\* C2: a line that resolves to an Int binding and whose raw value string the
\* base-10 conversion does not consume entirely makes the call return
\* InvalidInt at that line, with the destinations as they were before it.
C2_StrictInt ==
    (pos >= 1 /\ IntLine(file[1])
       /\ strtol(RawValue(file[1])).endpos # Len(RawValue(file[1])))
        => /\ pc = "returned"
           /\ ret = MICRO_CONF_ERROR_INVALID_INT
           /\ pos = 1
           /\ dest = dest0

C2_Witness ==
    /\ pc = "returned"
    /\ ret = MICRO_CONF_ERROR_INVALID_INT
    /\ Len(file) = 2
    /\ pos = 1
    /\ IntLine(file[1])
    /\ RawValue(file[1]) = <<"1", "2", "a">>

\* C3: when line k is the first to produce an error, the call returns that
\* line's error code having read k lines, and on return the destinations hold
\* what lines 1..k-1 wrote: nothing is rolled back, no later line is applied.
C3_AbortNoRollback ==
    (pc = "returned" /\ handle # "none" /\ FirstErr # 0)
        => /\ pos = FirstErr
           /\ ret = LineCode(file[FirstErr])
           /\ dest = Applied(FirstErr - 1)

C3_Witness ==
    /\ pc = "returned"
    /\ FirstErr = 2
    /\ ret = MICRO_CONF_ERROR_INVALID_INT
    /\ dest # dest0

\* C4: a line that resolves to no binding changes no destination and does not
\* end the call: the loop goes on to the next line.
C4_UnknownKeyIgnored ==
    [][ (pc = "loop" /\ pos < Len(file) /\ Resolves(file[pos + 1]) = 0)
          => (dest' = dest /\ pc' = "loop" /\ pos' = pos + 1) ]_vars

C4_Witness ==
    /\ pc = "loop"
    /\ pos = 1
    /\ Len(file) = 2
    /\ Resolves(file[1]) = 0
    /\ Candidate(file[1]) = <<"z", "=", "1", "\n">>
    /\ dest = dest0

\* C5: when the call returns OK, each destination holds the converted value
\* of the last line that resolved to its binding, and the value it held before
\* the call when no line did.
C5_LastLineWins ==
    (pc = "returned" /\ ret = MICRO_CONF_OK)
        => \A i \in 1..Len(config) :
              dest[i] = IF LastResolving(i) = 0 THEN dest0[i]
                        ELSE Converted(file[LastResolving(i)]).val

C5_Witness ==
    /\ pc = "returned"
    /\ ret = MICRO_CONF_OK
    /\ Len(file) = 2
    /\ Resolves(file[1]) = 1
    /\ Resolves(file[2]) = 1
    /\ Converted(file[1]).val # Converted(file[2]).val
    /\ dest[1] = Converted(file[2]).val
    /\ dest[3] = dest0[3]

\* C6: the file is closed exactly once before the call returns whenever it
\* was opened, whatever the call returns, and never before; no handle exists
\* when the binding list is null or the open fails.
C6_ClosedOnce ==
    /\ pc # "returned" => nclose = 0 /\ handle # "closed"
    /\ pc = "returned" =>
         IF env.confNull \/ env.openFails
         THEN handle = "none" /\ nclose = 0
         ELSE handle = "closed" /\ nclose = 1

C6_Witness ==
    /\ pc = "returned"
    /\ ret = MICRO_CONF_ERROR_INVALID_CHAR
    /\ pos < Len(file)
    /\ handle = "closed"
    /\ nclose = 1

\* C7: for a line that resolves to a Bool binding, the raw values "true" and
\* "1" store true, "false" and "0" store false, and every other raw value
\* makes the call return InvalidBool with the destinations unwritten.
C7_BoolAcceptance ==
    (pos = 1 /\ BoolLine(file[1])) =>
        IF RawValue(file[1]) \in {<<"t", "r", "u", "e">>, <<"1">>}
        THEN dest[Resolves(file[1])] = TRUE
             /\ (pc = "loop" \/ ret = MICRO_CONF_OK)
        ELSE IF RawValue(file[1]) \in {<<"f", "a", "l", "s", "e">>, <<"0">>}
        THEN dest[Resolves(file[1])] = FALSE
             /\ (pc = "loop" \/ ret = MICRO_CONF_OK)
        ELSE pc = "returned" /\ ret = MICRO_CONF_ERROR_INVALID_BOOL
             /\ dest = dest0

C7_Witness ==
    /\ pc = "returned"
    /\ ret = MICRO_CONF_ERROR_INVALID_BOOL
    /\ BoolLine(file[1])
    /\ RawValue(file[1]) = <<"T", "r", "u", "e">>

\* C8: a line followed by '#' and a comment gives the same result code and the
\* same destination values as the line alone (file has the comment, ref has
\* not), and a line whose first non-blank character is '#' is skipped: it
\* changes no destination and is no error.
C8_CommentStripped ==
    /\ pc = "returned" =>
          /\ ret = Outcome(ref, env, dest0).ret
          /\ dest = Outcome(ref, env, dest0).dest
    /\ (pos = 1 /\ file[1] # <<>> /\ Head(LeftTrimmed(file[1]) \o <<"-">>) = "#")
          => dest = dest0 /\ (pc = "loop" \/ ret = MICRO_CONF_OK)

C8_Witness ==
    /\ pc = "returned"
    /\ file # ref
    /\ ret = MICRO_CONF_OK
    /\ Resolves(file[1]) = 5
    /\ dest[5] = <<"a", " ", "b">>

\* C9: a line is converted by the first binding, in the table's order, whose
\* key is a prefix of its candidate text, with no check of what follows the
\* key; no other binding's destination changes, even that of a later binding
\* whose key is the line's key.
C9_FirstPrefixWins ==
    [][ (pc = "loop" /\ pos < Len(file) /\ Resolves(file[pos + 1]) # 0)
          => /\ \A j \in 1..Len(config) :
                   j # Resolves(file[pos + 1]) => dest'[j] = dest[j]
             /\ IF Converted(file[pos + 1]).code = MICRO_CONF_OK
                THEN /\ dest'[Resolves(file[pos + 1])]
                          = Converted(file[pos + 1]).val
                     /\ pc' = "loop"
                ELSE /\ dest' = dest
                     /\ pc' = "returned"
                     /\ ret' = Converted(file[pos + 1]).code ]_vars

C9_Witness ==
    /\ pos = 1
    /\ pc = "loop"
    /\ Candidate(file[1]) = <<"s", "x", "=", "1", "\n">>
    /\ Matching(file[1]) = {5, 6}
    /\ dest[5] = <<"x", "=", "1">>
    /\ dest[6] = dest0[6]

\* C10: a line that resolves to an Int binding with an empty raw value string
\* is no error: 0 is stored and the loop goes on to the end of the file.
C10_EmptyIntIsZero ==
    (pos >= 1 /\ IntLine(file[1]) /\ RawValue(file[1]) = <<>>)
        => /\ pos = 1 => dest[Resolves(file[1])] = 0
           /\ pc = "returned" => ret = MICRO_CONF_OK /\ pos = Len(file)

C10_Witness ==
    /\ pos = 1
    /\ pc = "loop"
    /\ Len(file) = 2
    /\ IntLine(file[1])
    /\ RawValue(file[1]) = <<>>
    /\ dest[Resolves(file[1])] = 0
    /\ dest0[Resolves(file[1])] # 0

===========================================================================
